---------------------------- MODULE Spec2Model ----------------------------
(***************************************************************************)
(* libtxref: the TXREF codec (src/libtxref/txref.cpp).                     *)
(*                                                                         *)
(* A string is a sequence of one-character strings.  The bech32 checksum   *)
(* codec that txref.cpp calls is modelled with its real polynomial, so     *)
(* that an encoded string only decodes when its characters are the ones    *)
(* that were encoded.                                                      *)
(***************************************************************************)
EXTENDS Integers, Sequences, FiniteSets, TLC

(***************************************************************************)
(* Bounds of the model.                                                    *)
(***************************************************************************)
\* how far around each end of a field's range the encode inputs are sampled
EdgeWidth == 1
\* longest raw string handed to classifyInputString, beyond the 64 of a txid
MaxClassifyExtra == 1

(***************************************************************************)
(* Program constants.                                                      *)
(***************************************************************************)
MAX_BLOCK_HEIGHT == 16777215
MAX_TRANSACTION_POSITION == 32767
MAX_TXO_INDEX == 32767
MAX_MAGIC_CODE == 31
DATA_SIZE == 9
DATA_EXTENDED_SIZE == 12

\* libtxref.h
MAGIC_BTC_MAIN == 3
MAGIC_BTC_MAIN_EXTENDED == 4
MAGIC_BTC_TEST == 6
MAGIC_BTC_TEST_EXTENDED == 7
TXREF_STRING_MIN_LENGTH == 18
TXREF_STRING_NO_HRP_MIN_LENGTH == 15
TXREF_EXT_STRING_MIN_LENGTH == 21
TXREF_EXT_STRING_NO_HRP_MIN_LENGTH == 18
TXREF_STRING_MIN_LENGTH_TESTNET == 22
TXREF_EXT_STRING_MIN_LENGTH_TESTNET == 25
BECH32_HRP_MAIN == <<"t", "x">>
BECH32_HRP_TEST == <<"t", "x", "t", "e", "s", "t">>
colon == ":"
hyphen == "-"

\* libbech32.h
separator == "1"
MAX_HRP_LENGTH == 83
MIN_BECH32_LENGTH == 8
MAX_BECH32_LENGTH == 90
CHECKSUM_LENGTH == 6
M_BECH32M == 734539939
M_BECH32 == 1

(***************************************************************************)
(* Bit operations on non-negative integers, as C's &, |, ^, << and >>.     *)
(***************************************************************************)
RECURSIVE BitAnd(_, _)
BitAnd(a, b) ==
    IF a = 0 \/ b = 0 THEN 0
    ELSE (IF a % 2 = 1 /\ b % 2 = 1 THEN 1 ELSE 0) + 2 * BitAnd(a \div 2, b \div 2)

RECURSIVE BitOr(_, _)
BitOr(a, b) ==
    IF a = 0 THEN b
    ELSE IF b = 0 THEN a
    ELSE (IF a % 2 = 1 \/ b % 2 = 1 THEN 1 ELSE 0) + 2 * BitOr(a \div 2, b \div 2)

RECURSIVE BitXor(_, _)
BitXor(a, b) ==
    IF a = 0 THEN b
    ELSE IF b = 0 THEN a
    ELSE ((a + b) % 2) + 2 * BitXor(a \div 2, b \div 2)

RECURSIVE Pow2(_)
Pow2(n) == IF n = 0 THEN 1 ELSE 2 * Pow2(n - 1)

Shl(a, n) == a * Pow2(n)
Shr(a, n) == a \div Pow2(n)

(***************************************************************************)
(* The bech32 codec (libbech32), the external collaborator of spec.md §6.  *)
(***************************************************************************)
charset ==
    << "q", "p", "z", "r", "y", "9", "x", "8", "g", "f", "2", "t", "v", "d", "w", "0",
       "s", "3", "j", "n", "5", "4", "k", "h", "c", "e", "6", "m", "u", "a", "7", "l" >>

Range(s) == {s[i] : i \in 1..Len(s)}

isAllowedChar(c) == c \in Range(charset)

\* the value of a data character; charset[v + 1] is the character of value v
CharValue(c) == (CHOOSE i \in 1..32 : charset[i] = c) - 1

LowerCase ==
    << "a", "b", "c", "d", "e", "f", "g", "h", "i", "j", "k", "l", "m",
       "n", "o", "p", "q", "r", "s", "t", "u", "v", "w", "x", "y", "z" >>
Digits == << "0", "1", "2", "3", "4", "5", "6", "7", "8", "9" >>

\* the ASCII code of a character
Ord(c) ==
    IF c \in Range(LowerCase) THEN 96 + (CHOOSE i \in 1..26 : LowerCase[i] = c)
    ELSE IF c \in Range(Digits) THEN 47 + (CHOOSE i \in 1..10 : Digits[i] = c)
    ELSE IF c = "-" THEN 45
    ELSE IF c = ":" THEN 58
    ELSE IF c = "." THEN 46
    ELSE 32

\* what bech32::stripUnknownChars keeps: the charset and the separator
isKeptChar(c) == isAllowedChar(c) \/ c = separator

\* bech32::stripUnknownChars: drop what is neither in the charset nor the separator
RECURSIVE stripUnknownChars(_)
stripUnknownChars(s) ==
    IF s = << >> THEN << >>
    ELSE (IF isKeptChar(Head(s)) THEN << Head(s) >> ELSE << >>) \o stripUnknownChars(Tail(s))

generator == << 996825010, 642813549, 513874426, 1027748829, 705979059 >>

\* exclusive or of two 5-bit symbols, tabulated
Xor5 == [x \in 0..31 |-> [y \in 0..31 |-> BitXor(x, y)]]

\* exclusive or of two 30-bit checksum states, symbol by symbol
Xor30(a, b) ==
    Xor5[a % 32][b % 32]
    + 32 * Xor5[(a \div 32) % 32][(b \div 32) % 32]
    + 1024 * Xor5[(a \div 1024) % 32][(b \div 1024) % 32]
    + 32768 * Xor5[(a \div 32768) % 32][(b \div 32768) % 32]
    + 1048576 * Xor5[(a \div 1048576) % 32][(b \div 1048576) % 32]
    + 33554432 * Xor5[(a \div 33554432) % 32][(b \div 33554432) % 32]

\* the generators selected by the bits of the top symbol b, combined
GenTable ==
    [b \in 0..31 |->
        Xor30(IF b % 2 = 1 THEN generator[1] ELSE 0,
        Xor30(IF (b \div 2) % 2 = 1 THEN generator[2] ELSE 0,
        Xor30(IF (b \div 4) % 2 = 1 THEN generator[3] ELSE 0,
        Xor30(IF (b \div 8) % 2 = 1 THEN generator[4] ELSE 0,
              IF (b \div 16) % 2 = 1 THEN generator[5] ELSE 0))))]

\* one step of the checksum: shift the state by a symbol, add v, reduce
polymodStep(chk, v) ==
    Xor30((chk % 33554432) * 32 + v, GenTable[chk \div 33554432])

\* the checksum state after the first n values
RECURSIVE polymodUpTo(_, _)
polymodUpTo(values, n) ==
    IF n = 0 THEN 1
    ELSE LET chk == polymodUpTo(values, n - 1)
         IN  IF chk >= 0 THEN polymodStep(chk, values[n]) ELSE 0

polymod(values) == polymodUpTo(values, Len(values))

expandHrp(hrp) ==
    [i \in 1..Len(hrp) |-> Shr(Ord(hrp[i]), 5)] \o << 0 >> \o
    [i \in 1..Len(hrp) |-> Ord(hrp[i]) % 32]

\* the six checksum symbols of (hrp, dp) under the checksum constant m
createChecksum(hrp, dp, m) ==
    LET mod == Xor30(polymod(expandHrp(hrp) \o dp \o << 0, 0, 0, 0, 0, 0 >>), m)
    IN  [i \in 1..CHECKSUM_LENGTH |-> Shr(mod, 5 * (CHECKSUM_LENGTH - i)) % 32]

mapDP(dp) == [i \in 1..Len(dp) |-> charset[dp[i] + 1]]

\* the string of (hrp, dp) under the checksum constant m
Bech32String(hrp, dp, m) ==
    hrp \o << separator >> \o mapDP(dp \o createChecksum(hrp, dp, m))

Bech32HrpOk(hrp) == Len(hrp) >= 1 /\ Len(hrp) <= MAX_HRP_LENGTH

\* bech32::encode: always the modern (bech32m) checksum; throws on a bad HRP
Bech32Encode(hrp, dp) ==
    IF Bech32HrpOk(hrp)
    THEN [ok |-> TRUE, str |-> Bech32String(hrp, dp, M_BECH32M)]
    ELSE [ok |-> FALSE, str |-> << >>]

\* position of the last separator of s, 0 when there is none
RECURSIVE findSeparatorPosition(_, _)
findSeparatorPosition(s, i) ==
    IF i = 0 THEN 0
    ELSE IF s[i] = separator THEN i
    ELSE findSeparatorPosition(s, i - 1)

\* bech32::decode: "throw" when the string is not well formed, the empty result
\* when neither checksum verifies, else the HRP, the payload and the variant
Bech32Decode(s) ==
    LET pos == findSeparatorPosition(s, Len(s))
        hrpPart == SubSeq(s, 1, pos - 1)
        dpPart == SubSeq(s, pos + 1, Len(s))
    IN  IF \/ Len(s) < MIN_BECH32_LENGTH
           \/ Len(s) > MAX_BECH32_LENGTH
           \/ pos = 0
           \/ ~Bech32HrpOk(hrpPart)
           \/ Len(dpPart) < CHECKSUM_LENGTH
           \/ \E i \in 1..Len(dpPart) : ~isAllowedChar(dpPart[i])
        THEN [thrown |-> TRUE, encoding |-> "Invalid", hrp |-> << >>, dp |-> << >>]
        ELSE LET vals == [i \in 1..Len(dpPart) |-> CharValue(dpPart[i])]
                 chk == polymod(expandHrp(hrpPart) \o vals)
                 body == SubSeq(vals, 1, Len(vals) - CHECKSUM_LENGTH)
             IN  IF chk = M_BECH32M
                 THEN [thrown |-> FALSE, encoding |-> "Bech32m", hrp |-> hrpPart, dp |-> body]
                 ELSE IF chk = M_BECH32
                 THEN [thrown |-> FALSE, encoding |-> "Bech32", hrp |-> hrpPart, dp |-> body]
                 ELSE [thrown |-> FALSE, encoding |-> "Invalid", hrp |-> << >>, dp |-> << >>]

(***************************************************************************)
(* txref.cpp: the range validator.  A throwing function returns the        *)
(* message of the std::runtime_error it throws, "" when it returns.        *)
(***************************************************************************)
isStandardSize(dataSize) == dataSize = DATA_SIZE

isExtendedSize(dataSize) == dataSize = DATA_EXTENDED_SIZE

\* isDataSizeValid with only a lower limit on the size
isDataSizeValidAtLeast(dataSize) == dataSize >= DATA_SIZE

isDataSizeValid(dataSize) == isStandardSize(dataSize) \/ isExtendedSize(dataSize)

isLengthValid(length) ==
    \/ length = TXREF_STRING_NO_HRP_MIN_LENGTH
    \/ length = TXREF_EXT_STRING_NO_HRP_MIN_LENGTH

checkBlockHeightRange(blockHeight) ==
    IF blockHeight < 0 \/ blockHeight > MAX_BLOCK_HEIGHT
    THEN "block height is too large" ELSE ""

\* checkTransactionPositionRange with a 16-bit maximum
checkTransactionPositionRange16(transactionPosition) ==
    IF transactionPosition < 0 \/ transactionPosition > 65535
    THEN "transaction position is too large" ELSE ""

checkTransactionPositionRange(transactionPosition) ==
    IF transactionPosition < 0 \/ transactionPosition > MAX_TRANSACTION_POSITION
    THEN "transaction position is too large" ELSE ""

checkTxoIndexRange(txoIndex) ==
    IF txoIndex < 0 \/ txoIndex > MAX_TXO_INDEX
    THEN "txo index is too large" ELSE ""

checkMagicCodeRange(magicCode) ==
    IF magicCode < 0 \/ magicCode > MAX_MAGIC_CODE
    THEN "magic code is too large" ELSE ""

\* checkExtendedMagicCode that only looks at the sign of the magic code
checkExtendedMagicCodeOmitted(magicCode) ==
    IF magicCode < 0
    THEN "magic code does not support extended txrefs" ELSE ""

checkExtendedMagicCode(magicCode) ==
    IF magicCode # MAGIC_BTC_MAIN_EXTENDED /\ magicCode # MAGIC_BTC_TEST_EXTENDED
    THEN "magic code does not support extended txrefs" ELSE ""

\* the first message of a sequence of checks, "" when every check passed
RECURSIVE FirstThrown(_)
FirstThrown(checks) ==
    IF checks = << >> THEN ""
    ELSE IF Head(checks) # "" THEN Head(checks)
    ELSE FirstThrown(Tail(checks))

\* the result of a function that threw msg
Thrown(msg) ==
    [ok |-> FALSE, error |-> msg, str |-> << >>, dp |-> << >>, fn |-> "", magicCode |-> 0]

\* the result of a function that returned the string s, built from payload dp
Returned(s, dp) ==
    [ok |-> TRUE, error |-> "", str |-> s, dp |-> dp, fn |-> "", magicCode |-> 0]

\* the result r, marked as the result of the encoder fn called with magicCode
CalledWith(fn, magicCode, r) == [r EXCEPT !.fn = fn, !.magicCode = magicCode]

(***************************************************************************)
(* txref.cpp: the pretty printer.                                          *)
(***************************************************************************)
\* the copy loop of addGroupSeparators, from raw position rawPos on
RECURSIVE copySkipping(_, _, _, _, _, _)
copySkipping(raw, hrpLength, separatorOffset, rawPos, outputPos, output) ==
    IF rawPos = Len(raw) THEN output
    ELSE LET written == [output EXCEPT ![outputPos + 1] = raw[rawPos + 1]]
             nextRaw == rawPos + 1
             nextOut == IF nextRaw > hrpLength /\ (nextRaw - hrpLength) % separatorOffset = 0
                        THEN outputPos + 2 ELSE outputPos + 1
         IN  IF Len(written) >= 0
             THEN copySkipping(raw, hrpLength, separatorOffset, nextRaw, nextOut, written)
             ELSE written

addGroupSeparators(raw, hrplen, separatorOffset) ==
    LET rawLength == Len(raw)
        hrpLength == hrplen
        numSeparators == (rawLength - hrpLength - 1) \div separatorOffset
        outputLength == rawLength + numSeparators
    IN  IF hrplen > MAX_HRP_LENGTH
        THEN Thrown("HRP must be less than 84 characters long")
        ELSE IF separatorOffset < 1
        THEN Thrown("separatorOffset must be > 0")
        ELSE IF rawLength < 2
        THEN Thrown("Can't add separator characters to strings with length < 2")
        ELSE IF rawLength = hrpLength
        THEN Returned(raw, << >>)
        ELSE IF rawLength < hrpLength
        THEN Thrown("HRP length can't be greater than input length")
        ELSE Returned(copySkipping(raw, hrpLength, separatorOffset, 0, 0,
                                   [i \in 1..outputLength |-> hyphen]), << >>)

\* std::string::insert of one character before position pos (0-based)
InsertAt(s, pos, c) == SubSeq(s, 1, pos) \o << c >> \o SubSeq(s, pos + 1, Len(s))

prettyPrint(plain, hrplen) ==
    LET hrpPlusSeparatorLength == hrplen + 1
        result == InsertAt(plain, hrpPlusSeparatorLength, colon)
        hrpPlusSeparatorAndColonLength == hrplen + 2
    IN  addGroupSeparators(result, hrpPlusSeparatorAndColonLength, 4)

(***************************************************************************)
(* txref.cpp: the bit-field codec.  dp[k] of the code is dp[k + 1] here.   *)
(***************************************************************************)
extractMagicCode(dp) == dp[1]

extractVersion(dp) == BitAnd(dp[2], 1)

VersionThrown(dp) ==
    IF extractVersion(dp) = 0 THEN "" ELSE "Unknown txref version detected"

extractBlockHeight(dp) ==
    BitOr(BitOr(BitOr(BitOr(Shr(dp[2], 1), Shl(dp[3], 4)), Shl(dp[4], 9)),
                Shl(dp[5], 14)), Shl(dp[6], 19))

extractTransactionPosition(dp) ==
    BitOr(BitOr(dp[7], Shl(dp[8], 5)), Shl(dp[9], 10))

\* extractTxoIndex with the last shift one bit short
extractTxoIndexShort(dp) ==
    IF Len(dp) < 12 THEN 0
    ELSE BitOr(BitOr(dp[10], Shl(dp[11], 5)), Shl(dp[12], 9))

extractTxoIndex(dp) ==
    IF Len(dp) < 12 THEN 0
    ELSE BitOr(BitOr(dp[10], Shl(dp[11], 5)), Shl(dp[12], 10))

\* extractTxoIndex only looks at the version of a payload that stores a txo index
TxoIndexThrown(dp) ==
    IF Len(dp) < 12 THEN "" ELSE VersionThrown(dp)

\* addHrpIfNeeded that only knows the sigils of the standard references
addHrpIfNeededStandardOnly(txref) ==
    IF isLengthValid(Len(txref)) /\ txref[1] = "r"
    THEN BECH32_HRP_MAIN \o << separator >> \o txref
    ELSE IF isLengthValid(Len(txref)) /\ txref[1] = "x"
    THEN BECH32_HRP_TEST \o << separator >> \o txref
    ELSE txref

addHrpIfNeeded(txref) ==
    IF isLengthValid(Len(txref)) /\ (txref[1] = "r" \/ txref[1] = "y")
    THEN BECH32_HRP_MAIN \o << separator >> \o txref
    ELSE IF isLengthValid(Len(txref)) /\ (txref[1] = "x" \/ txref[1] = "8")
    THEN BECH32_HRP_TEST \o << separator >> \o txref
    ELSE txref

\* standardPayload with the mask of its third byte one bit narrow (0x1E0)
standardPayloadNarrowMask(magicCode, bh, tp) ==
    << magicCode,
       BitOr(BitAnd(0, 254), Shl(BitAnd(bh, 15), 1)),
       Shr(BitAnd(bh, 480), 4),
       Shr(BitAnd(bh, 15872), 9),
       Shr(BitAnd(bh, 507904), 14),
       Shr(BitAnd(bh, 16252928), 19),
       BitAnd(tp, 31),
       Shr(BitAnd(tp, 992), 5),
       Shr(BitAnd(tp, 31744), 10) >>

\* the bytes txrefEncode writes into its zero-initialised vector
standardPayload(magicCode, bh, tp) ==
    << magicCode,
       BitOr(BitAnd(0, 254), Shl(BitAnd(bh, 15), 1)),
       Shr(BitAnd(bh, 496), 4),
       Shr(BitAnd(bh, 15872), 9),
       Shr(BitAnd(bh, 507904), 14),
       Shr(BitAnd(bh, 16252928), 19),
       BitAnd(tp, 31),
       Shr(BitAnd(tp, 992), 5),
       Shr(BitAnd(tp, 31744), 10) >>

\* the three further bytes txrefExtEncode writes
txoPayload(ti) ==
    << BitAnd(ti, 31), Shr(BitAnd(ti, 992), 5), Shr(BitAnd(ti, 31744), 10) >>

\* bech32::encode, then prettyPrint, as the tail of both encoders
encodeAndPrint(hrp, dp) ==
    LET result == Bech32Encode(hrp, dp)
    IN  IF ~result.ok THEN Thrown("bech32::encode failed")
        ELSE LET output == prettyPrint(result.str, Len(hrp))
             IN  IF output.ok THEN Returned(output.str, dp) ELSE output

txrefEncode(hrp, magicCode, blockHeight, transactionPosition) ==
    LET thrown == FirstThrown(<< checkBlockHeightRange(blockHeight),
                                 checkTransactionPositionRange(transactionPosition),
                                 checkMagicCodeRange(magicCode) >>)
    IN  CalledWith("txrefEncode", magicCode,
            IF thrown # "" THEN Thrown(thrown)
            ELSE encodeAndPrint(hrp, standardPayload(magicCode, blockHeight,
                                                     transactionPosition)))

txrefExtEncode(hrp, magicCode, blockHeight, transactionPosition, txoIndex) ==
    LET thrown == FirstThrown(<< checkBlockHeightRange(blockHeight),
                                 checkTransactionPositionRange(transactionPosition),
                                 checkTxoIndexRange(txoIndex),
                                 checkMagicCodeRange(magicCode),
                                 checkExtendedMagicCode(magicCode) >>)
    IN  CalledWith("txrefExtEncode", magicCode,
            IF thrown # "" THEN Thrown(thrown)
            ELSE encodeAndPrint(hrp, standardPayload(magicCode, blockHeight,
                                                     transactionPosition)
                                     \o txoPayload(txoIndex)))

(***************************************************************************)
(* txref.cpp: the public operations.                                       *)
(***************************************************************************)
\* encode that chooses its path by the txo index alone
encodeByTxoIndexOnly(blockHeight, transactionPosition, txoIndex, forceExtended, hrp) ==
    IF txoIndex = 0
    THEN txrefEncode(hrp, MAGIC_BTC_MAIN, blockHeight, transactionPosition)
    ELSE txrefExtEncode(hrp, MAGIC_BTC_MAIN_EXTENDED, blockHeight, transactionPosition,
                        txoIndex)

encode(blockHeight, transactionPosition, txoIndex, forceExtended, hrp) ==
    IF txoIndex = 0 /\ ~forceExtended
    THEN txrefEncode(hrp, MAGIC_BTC_MAIN, blockHeight, transactionPosition)
    ELSE txrefExtEncode(hrp, MAGIC_BTC_MAIN_EXTENDED, blockHeight, transactionPosition,
                        txoIndex)

encodeTestnet(blockHeight, transactionPosition, txoIndex, forceExtended, hrp) ==
    IF txoIndex = 0 /\ ~forceExtended
    THEN txrefEncode(hrp, MAGIC_BTC_TEST, blockHeight, transactionPosition)
    ELSE txrefExtEncode(hrp, MAGIC_BTC_TEST_EXTENDED, blockHeight, transactionPosition,
                        txoIndex)

\* a DecodedResult that was not returned: decode threw msg
DecodeThrown(msg) ==
    [ok |-> FALSE, error |-> msg, txref |-> << >>, hrp |-> << >>, magicCode |-> 0,
     blockHeight |-> 0, transactionPosition |-> 0, txoIndex |-> 0,
     encoding |-> "Invalid", commentary |-> << >>, dp |-> << >>, updated |-> Thrown("")]

\* the commentary of a legacy txref, as the pieces the code concatenates
Commentary(txref, updatedTxref) ==
    << "The txref ", txref,
       " uses an old encoding scheme and should be updated to ", updatedTxref,
       " See https://github.com/dcdpr/libtxref#regarding-bech32-checksums for more information." >>

\* the re-encoding a commentary names
NamedInCommentary(commentary) == commentary[4]

decode(txref) ==
    LET txrefClean == addHrpIfNeeded(stripUnknownChars(txref))
        bech32DecodedResult == Bech32Decode(txrefClean)
        payload == bech32DecodedResult.dp
        hrpLength == Len(bech32DecodedResult.hrp)
        dataSize == Len(payload)
    IN  IF bech32DecodedResult.thrown THEN DecodeThrown("bech32::decode failed")
        ELSE IF hrpLength = 0 /\ dataSize = 0 THEN DecodeThrown("checksum is invalid")
        ELSE IF ~isDataSizeValid(dataSize) THEN DecodeThrown("decoded dp size is incorrect")
        ELSE
        LET printed == prettyPrint(txrefClean, hrpLength)
            thrown == FirstThrown(<< printed.error, VersionThrown(payload),
                                     VersionThrown(payload), TxoIndexThrown(payload) >>)
            magic == extractMagicCode(payload)
            height == extractBlockHeight(payload)
            position == extractTransactionPosition(payload)
            index == extractTxoIndex(payload)
            updatedTxref ==
                IF magic = MAGIC_BTC_MAIN_EXTENDED \/ magic = MAGIC_BTC_TEST_EXTENDED
                THEN txrefExtEncode(bech32DecodedResult.hrp, magic, height, position, index)
                ELSE txrefEncode(bech32DecodedResult.hrp, magic, height, position)
            result ==
                [ok |-> TRUE, error |-> "", txref |-> printed.str,
                 hrp |-> bech32DecodedResult.hrp, magicCode |-> magic,
                 blockHeight |-> height, transactionPosition |-> position,
                 txoIndex |-> index, encoding |-> bech32DecodedResult.encoding,
                 commentary |-> << >>, dp |-> payload, updated |-> Thrown("")]
        IN  IF thrown # "" THEN DecodeThrown(thrown)
            ELSE IF bech32DecodedResult.encoding = "Bech32m" THEN result
            ELSE IF ~updatedTxref.ok THEN DecodeThrown(updatedTxref.error)
            ELSE [result EXCEPT !.commentary = Commentary(printed.str, updatedTxref.str),
                                !.updated = updatedTxref]

\* classifyInputStringBase with the results of its two tests exchanged
classifyInputStringBaseExchanged(str) ==
    LET s == stripUnknownChars(str)
    IN  IF Len(s) = TXREF_STRING_MIN_LENGTH \/ Len(s) = TXREF_STRING_MIN_LENGTH_TESTNET
        THEN "txrefext"
        ELSE IF \/ Len(s) = TXREF_EXT_STRING_MIN_LENGTH
                \/ Len(s) = TXREF_EXT_STRING_MIN_LENGTH_TESTNET
        THEN "txref"
        ELSE "unknown"

classifyInputStringBase(str) ==
    LET s == stripUnknownChars(str)
    IN  IF Len(s) = TXREF_STRING_MIN_LENGTH \/ Len(s) = TXREF_STRING_MIN_LENGTH_TESTNET
        THEN "txref"
        ELSE IF \/ Len(s) = TXREF_EXT_STRING_MIN_LENGTH
                \/ Len(s) = TXREF_EXT_STRING_MIN_LENGTH_TESTNET
        THEN "txrefext"
        ELSE "unknown"

\* classifyInputStringMissingHRP with its two lengths exchanged
classifyInputStringMissingHRPSwapped(str) ==
    LET s == stripUnknownChars(str)
    IN  IF Len(s) = TXREF_EXT_STRING_NO_HRP_MIN_LENGTH THEN "txref"
        ELSE IF Len(s) = TXREF_STRING_NO_HRP_MIN_LENGTH THEN "txrefext"
        ELSE "unknown"

classifyInputStringMissingHRP(str) ==
    LET s == stripUnknownChars(str)
    IN  IF Len(s) = TXREF_STRING_NO_HRP_MIN_LENGTH THEN "txref"
        ELSE IF Len(s) = TXREF_EXT_STRING_NO_HRP_MIN_LENGTH THEN "txrefext"
        ELSE "unknown"

\* classifyInputString with the address length test strict at its lower end
classifyInputStringRuleStrict(str) ==
    LET baseResult == classifyInputStringBase(str)
        missingResult == classifyInputStringMissingHRP(str)
    IN  IF str = << >> THEN << "empty", "unknown" >>
        ELSE IF Len(str) = 64 THEN << "txid", "txid" >>
        ELSE IF /\ str[1] \in {"1", "3", "m", "n", "2"}
                /\ Len(str) > 26 /\ Len(str) < 36
        THEN << "address", "address" >>
        ELSE IF baseResult # "unknown" /\ missingResult = "unknown"
        THEN << "base", baseResult >>
        ELSE IF baseResult = "unknown" /\ missingResult # "unknown"
        THEN << "missing", missingResult >>
        ELSE IF baseResult = "txref" /\ missingResult = "txrefext"
        THEN IF /\ str[1] = BECH32_HRP_MAIN[1]
                /\ str[2] = BECH32_HRP_MAIN[2]
                /\ str[3] = separator
             THEN << "tie", "txref" >>
             ELSE << "tie", "txrefext" >>
        ELSE << "fallthrough", baseResult >>

\* the rule of classifyInputString that returns: "empty", "txid", "address",
\* "base", "missing", "tie" or "fallthrough", with the value it returns
classifyInputStringRule(str) ==
    LET baseResult == classifyInputStringBase(str)
        missingResult == classifyInputStringMissingHRP(str)
    IN  IF str = << >> THEN << "empty", "unknown" >>
        ELSE IF Len(str) = 64 THEN << "txid", "txid" >>
        ELSE IF /\ str[1] \in {"1", "3", "m", "n", "2"}
                /\ Len(str) >= 26 /\ Len(str) < 36
        THEN << "address", "address" >>
        ELSE IF baseResult # "unknown" /\ missingResult = "unknown"
        THEN << "base", baseResult >>
        ELSE IF baseResult = "unknown" /\ missingResult # "unknown"
        THEN << "missing", missingResult >>
        ELSE IF baseResult = "txref" /\ missingResult = "txrefext"
        THEN IF /\ str[1] = BECH32_HRP_MAIN[1]
                /\ str[2] = BECH32_HRP_MAIN[2]
                /\ str[3] = separator
             THEN << "tie", "txref" >>
             ELSE << "tie", "txrefext" >>
        ELSE << "fallthrough", baseResult >>

classifyInputString(str) == classifyInputStringRule(str)[2]

(***************************************************************************)
(* The inputs the operations are applied to.                               *)
(***************************************************************************)
\* the values within EdgeWidth of both ends of 0..max, inside and outside
EdgeSamples(max) ==
    ((0 - EdgeWidth)..(EdgeWidth - 1)) \cup ((max - EdgeWidth + 1)..(max + EdgeWidth))

Heights == EdgeSamples(MAX_BLOCK_HEIGHT) \cup {466793}
Positions == EdgeSamples(MAX_TRANSACTION_POSITION) \cup {2205}
TxoIndexes == EdgeSamples(MAX_TXO_INDEX) \cup {10}

\* the two canonical HRPs, two other HRPs bech32 accepts, and one it rejects
Hrps == {BECH32_HRP_MAIN, BECH32_HRP_TEST, << "r", "x" >>, << "t", "b" >>, << >>}

\* payloads another implementation may have built: any magic code, either
\* version bit, any number of symbols
ForeignMagicCodes == {0, MAGIC_BTC_MAIN, MAGIC_BTC_MAIN_EXTENDED, MAGIC_BTC_TEST,
                      MAGIC_BTC_TEST_EXTENDED}
ForeignSizes == {0, DATA_SIZE - 1, DATA_SIZE, DATA_SIZE + 1, DATA_EXTENDED_SIZE,
                 DATA_EXTENDED_SIZE + 1}
ForeignFields == { << 0, 0, 0 >>, << 466793, 2205, 10 >>,
                   << MAX_BLOCK_HEIGHT, MAX_TRANSACTION_POSITION, MAX_TXO_INDEX >> }
ForeignHrps == {BECH32_HRP_MAIN, BECH32_HRP_TEST}

\* the first size symbols of the layout of spec.md §4.2
ForeignPayload(magic, version, f, size) ==
    SubSeq(<< magic,
              version + 2 * (f[1] % 16),
              (f[1] \div 16) % 32,
              (f[1] \div 512) % 32,
              (f[1] \div 16384) % 32,
              (f[1] \div 524288) % 32,
              f[2] % 32, (f[2] \div 32) % 32, (f[2] \div 1024) % 32,
              f[3] % 32, (f[3] \div 32) % 32, (f[3] \div 1024) % 32,
              0 >>, 1, size)

\* s without its colons and hyphens
NotSeparator(c) == c \notin {colon, hyphen}
WithoutSeparators(s) == SelectSeq(s, NotSeparator)

\* s without its HRP and the separator that ends it
WithoutHrp(s) == SubSeq(s, findSeparatorPosition(s, Len(s)) + 1, Len(s))

\* s with its last character replaced by another character of the charset
Damaged(s) ==
    [s EXCEPT ![Len(s)] = charset[((CharValue(s[Len(s)]) + 1) % 32) + 1]]

Repeat(c, n) == [i \in 1..n |-> c]

ClassifyPrefixes ==
    { << >>, << "t", "x", "1" >>, << "t", "x", "t", "e", "s", "t", "1" >>,
      << "-", "t", "x", "1" >>, << "1" >>, << "3" >>, << "m" >>, << "n" >>, << "2" >>,
      << "r" >> }

ClassifyLengths == 0..(64 + MaxClassifyExtra)

ReferenceLengths ==
    { TXREF_STRING_NO_HRP_MIN_LENGTH, TXREF_STRING_MIN_LENGTH, TXREF_EXT_STRING_MIN_LENGTH,
      TXREF_STRING_MIN_LENGTH_TESTNET, TXREF_EXT_STRING_MIN_LENGTH_TESTNET }

\* a string of n characters that starts with prefix and keeps kept of its
\* characters when its separators are stripped
ClassifyInput(prefix, n, kept) ==
    LET hyphens == Len(prefix) - Len(WithoutSeparators(prefix))
    IN  prefix \o Repeat("q", kept - (Len(prefix) - hyphens))
               \o Repeat(hyphen, n - kept - hyphens)

ClassifyInputOk(prefix, n, kept) ==
    LET hyphens == Len(prefix) - Len(WithoutSeparators(prefix))
    IN  /\ kept >= Len(prefix) - hyphens
        /\ n - kept >= hyphens

(***************************************************************************)
(* The state: the last call of each operation and what it returned.        *)
(***************************************************************************)
VARIABLES
    pc,          \* the operation that ran last
    args,        \* the arguments of the last encode or encodeTestnet
    encoded,     \* what that call returned
    input,       \* the string handed to the last decode, and how it was made
    decoded,     \* what that decode returned
    redecoded,   \* what decode returned for the re-encoding the commentary names
    classified   \* the last classifyInputString call and its result

vars == << pc, args, encoded, input, decoded, redecoded, classified >>

NoArgs ==
    [testnet |-> FALSE, blockHeight |-> 0, transactionPosition |-> 0, txoIndex |-> 0,
     forceExtended |-> FALSE, hrp |-> << >>]
NoInput == [how |-> "none", str |-> << >>, hrp |-> << >>, dp |-> << >>, legacy |-> FALSE]
NoClassified == [str |-> << >>, rule |-> "none", result |-> "unknown"]

Init ==
    /\ pc = "start"
    /\ args = NoArgs
    /\ encoded = Thrown("")
    /\ input = NoInput
    /\ decoded = DecodeThrown("")
    /\ redecoded = DecodeThrown("")
    /\ classified = NoClassified

\* txref::encode
Encode(blockHeight, transactionPosition, txoIndex, forceExtended, hrp) ==
    /\ pc = "start"
    /\ pc' = "encoded"
    /\ args' = [testnet |-> FALSE, blockHeight |-> blockHeight,
                transactionPosition |-> transactionPosition, txoIndex |-> txoIndex,
                forceExtended |-> forceExtended, hrp |-> hrp]
    /\ encoded' = encode(blockHeight, transactionPosition, txoIndex, forceExtended, hrp)
    /\ input' = NoInput
    /\ decoded' = DecodeThrown("")
    /\ redecoded' = DecodeThrown("")
    /\ classified' = NoClassified

\* txref::encodeTestnet
EncodeTestnet(blockHeight, transactionPosition, txoIndex, forceExtended, hrp) ==
    /\ pc = "start"
    /\ pc' = "encoded"
    /\ args' = [testnet |-> TRUE, blockHeight |-> blockHeight,
                transactionPosition |-> transactionPosition, txoIndex |-> txoIndex,
                forceExtended |-> forceExtended, hrp |-> hrp]
    /\ encoded' = encodeTestnet(blockHeight, transactionPosition, txoIndex, forceExtended,
                                hrp)
    /\ input' = NoInput
    /\ decoded' = DecodeThrown("")
    /\ redecoded' = DecodeThrown("")
    /\ classified' = NoClassified

\* txref::decode of the string in
DecodeInput(in) ==
    /\ pc' = "decoded"
    /\ input' = in
    /\ decoded' = decode(in.str)
    /\ redecoded' = DecodeThrown("")
    /\ classified' = NoClassified

\* txref::decode of what encode returned
DecodeEncoded ==
    /\ pc = "encoded" /\ encoded.ok
    /\ DecodeInput([how |-> "encoded", str |-> encoded.str, hrp |-> args.hrp,
                    dp |-> encoded.dp, legacy |-> FALSE])
    /\ UNCHANGED << args, encoded >>

\* txref::decode of what encode returned, its colons and hyphens removed
DecodeStripped ==
    /\ pc = "encoded" /\ encoded.ok
    /\ DecodeInput([how |-> "stripped", str |-> WithoutSeparators(encoded.str),
                    hrp |-> args.hrp, dp |-> encoded.dp, legacy |-> FALSE])
    /\ UNCHANGED << args, encoded >>

\* txref::decode of what encode returned, its separators and its HRP removed
DecodeWithoutHrp ==
    /\ pc = "encoded" /\ encoded.ok
    /\ DecodeInput([how |-> "nohrp", str |-> WithoutHrp(WithoutSeparators(encoded.str)),
                    hrp |-> args.hrp, dp |-> encoded.dp, legacy |-> FALSE])
    /\ UNCHANGED << args, encoded >>

\* txref::decode of a string that another implementation built
DecodeForeign(hrp, dp, legacy, bare, damaged) ==
    /\ pc = "start"
    /\ LET whole == Bech32String(hrp, dp, IF legacy THEN M_BECH32 ELSE M_BECH32M)
           sent  == IF damaged THEN Damaged(whole) ELSE whole
       IN  DecodeInput([how |-> IF damaged
                                THEN (IF bare THEN "damaged-nohrp" ELSE "damaged")
                                ELSE (IF bare THEN "foreign-nohrp" ELSE "foreign"),
                        str |-> IF bare THEN WithoutHrp(sent) ELSE sent,
                        hrp |-> hrp, dp |-> dp, legacy |-> legacy])
    /\ UNCHANGED << args, encoded >>

\* txref::decode of the re-encoding that the commentary of a legacy txref names
DecodeUpdated ==
    /\ pc = "decoded" /\ decoded.ok /\ decoded.commentary # << >>
    /\ pc' = "redecoded"
    /\ redecoded' = decode(NamedInCommentary(decoded.commentary))
    /\ UNCHANGED << args, encoded, input, decoded, classified >>

\* txref::classifyInputString
Classify(str) ==
    /\ pc = "start"
    /\ pc' = "classified"
    /\ classified' = [str |-> str, rule |-> classifyInputStringRule(str)[1],
                      result |-> classifyInputString(str)]
    /\ UNCHANGED << args, encoded, input, decoded, redecoded >>

\* txref::classifyInputString of what encode returned
ClassifyEncoded ==
    /\ pc = "encoded" /\ encoded.ok
    /\ pc' = "classified"
    /\ classified' = [str |-> encoded.str, rule |-> classifyInputStringRule(encoded.str)[1],
                      result |-> classifyInputString(encoded.str)]
    /\ UNCHANGED << args, encoded, input, decoded, redecoded >>

\* a call of encode or encodeTestnet with arguments around the range ends
CallEncode ==
    /\ pc = "start"
    /\ \E bh \in Heights, tp \in Positions, ti \in TxoIndexes, fe \in BOOLEAN, hrp \in Hrps :
          \/ Encode(bh, tp, ti, fe, hrp)
          \/ EncodeTestnet(bh, tp, ti, fe, hrp)

\* a call of decode with a string from elsewhere
CallDecodeForeign ==
    /\ pc = "start"
    /\ \E hrp \in ForeignHrps, magic \in ForeignMagicCodes, version \in {0, 1},
          f \in ForeignFields, size \in ForeignSizes,
          legacy \in BOOLEAN, bare \in BOOLEAN, damaged \in BOOLEAN :
          DecodeForeign(hrp, ForeignPayload(magic, version, f, size), legacy, bare, damaged)

\* a call of classifyInputString with a string of a chosen shape
CallClassify ==
    /\ pc = "start"
    /\ \E prefix \in ClassifyPrefixes, n \in ClassifyLengths,
          kept \in ReferenceLengths \cup {17} :
          \E k \in {kept, n} :
             /\ k <= n /\ Len(prefix) <= n /\ ClassifyInputOk(prefix, n, k)
             /\ Classify(ClassifyInput(prefix, n, k))

Next ==
    \/ CallEncode
    \/ DecodeEncoded
    \/ DecodeStripped
    \/ DecodeWithoutHrp
    \/ CallDecodeForeign
    \/ DecodeUpdated
    \/ CallClassify
    \/ ClassifyEncoded

Spec == Init /\ [][Next]_vars

(***************************************************************************)
(* The extended encoder applied on its own, to magic codes its callers     *)
(* never pass.                                                             *)
(***************************************************************************)
ProbeMagicCodes == (0 - 1)..(MAX_MAGIC_CODE + 1)

\* the magic codes checkExtendedMagicCode lets through
ExtendedCodes == {MAGIC_BTC_MAIN_EXTENDED, MAGIC_BTC_TEST_EXTENDED}

\* txrefExtEncode
ProbeExtEncode(hrp, magicCode, blockHeight, transactionPosition, txoIndex) ==
    /\ pc = "start"
    /\ pc' = "probed"
    /\ args' = [testnet |-> magicCode = MAGIC_BTC_TEST_EXTENDED, blockHeight |-> blockHeight,
                transactionPosition |-> transactionPosition, txoIndex |-> txoIndex,
                forceExtended |-> TRUE, hrp |-> hrp]
    /\ encoded' = txrefExtEncode(hrp, magicCode, blockHeight, transactionPosition, txoIndex)
    /\ UNCHANGED << input, decoded, redecoded, classified >>

CallExtEncode ==
    /\ pc = "start"
    /\ \E magicCode \in ProbeMagicCodes, bh \in {0, MAX_BLOCK_HEIGHT + 1}, ti \in {0, 10} :
          ProbeExtEncode(BECH32_HRP_MAIN, magicCode, bh, 2205, ti)

NextCodec == Next \/ CallExtEncode

SpecCodec == Init /\ [][NextCodec]_vars

(***************************************************************************)
(* The bit-field codec on its own: both encoders applied to every magic    *)
(* code they accept and to field values around the symbol boundaries, and  *)
(* the extract functions applied to the payload they built.                *)
(***************************************************************************)
\* the values of s inside 0..max
Within(s, max) == { v \in s : v >= 0 /\ v <= max }

\* values on both sides of every symbol boundary of the 24-bit height
LayoutHeights ==
    Within(Heights, MAX_BLOCK_HEIGHT)
    \cup {15, 16, 511, 512, 16383, 16384, 524287, 524288}

\* values on both sides of every symbol boundary of a 15-bit field
LayoutPositions == Within(Positions, MAX_TRANSACTION_POSITION) \cup {31, 32, 1023, 1024}
LayoutTxoIndexes == Within(TxoIndexes, MAX_TXO_INDEX) \cup {31, 32, 1023, 1024}

LayoutMagicCodes == 0..MAX_MAGIC_CODE

\* txrefEncode
PackStandard(magicCode, blockHeight, transactionPosition) ==
    /\ pc = "start"
    /\ pc' = "packed"
    /\ args' = [testnet |-> FALSE, blockHeight |-> blockHeight,
                transactionPosition |-> transactionPosition, txoIndex |-> 0,
                forceExtended |-> FALSE, hrp |-> BECH32_HRP_MAIN]
    /\ encoded' = txrefEncode(BECH32_HRP_MAIN, magicCode, blockHeight, transactionPosition)
    /\ UNCHANGED << input, decoded, redecoded, classified >>

\* txrefExtEncode
PackExtended(magicCode, blockHeight, transactionPosition, txoIndex) ==
    /\ pc = "start"
    /\ pc' = "packed"
    /\ args' = [testnet |-> FALSE, blockHeight |-> blockHeight,
                transactionPosition |-> transactionPosition, txoIndex |-> txoIndex,
                forceExtended |-> TRUE, hrp |-> BECH32_HRP_MAIN]
    /\ encoded' = txrefExtEncode(BECH32_HRP_MAIN, magicCode, blockHeight,
                                 transactionPosition, txoIndex)
    /\ UNCHANGED << input, decoded, redecoded, classified >>

\* extractMagicCode, extractBlockHeight, extractTransactionPosition and
\* extractTxoIndex applied to the payload dp
extractFields(dp) ==
    LET thrown == FirstThrown(<< VersionThrown(dp), TxoIndexThrown(dp) >>)
    IN  IF thrown # "" THEN DecodeThrown(thrown)
        ELSE [DecodeThrown("") EXCEPT
                 !.ok = TRUE,
                 !.magicCode = extractMagicCode(dp),
                 !.blockHeight = extractBlockHeight(dp),
                 !.transactionPosition = extractTransactionPosition(dp),
                 !.txoIndex = extractTxoIndex(dp),
                 !.dp = dp]

\* the extract functions, applied to what an encoder packed
Unpack ==
    /\ pc = "packed" /\ encoded.ok
    /\ pc' = "unpacked"
    /\ decoded' = extractFields(encoded.dp)
    /\ UNCHANGED << args, encoded, input, redecoded, classified >>

CallPackStandard ==
    /\ pc = "start"
    /\ \E magicCode \in LayoutMagicCodes, bh \in LayoutHeights, tp \in LayoutPositions :
          PackStandard(magicCode, bh, tp)

CallPackExtended ==
    /\ pc = "start"
    /\ \E magicCode \in ExtendedCodes, bh \in LayoutHeights, tp \in LayoutPositions,
          ti \in LayoutTxoIndexes :
          PackExtended(magicCode, bh, tp, ti)

NextLayout ==
    \/ CallPackStandard
    \/ CallPackExtended
    \/ Unpack

SpecLayout == Init /\ [][NextLayout]_vars

(***************************************************************************)
(* The pretty printer on its own, applied to strings of every length up to *)
(* MaxRawLength and to HRP lengths on both sides of MAX_HRP_LENGTH.        *)
(***************************************************************************)
MaxRawLength == 92

FormatHrpLengths == 0..(MAX_HRP_LENGTH + 2)

\* a string of n symbols of the codec, each different from its neighbours
RawString(n) == [i \in 1..n |-> charset[((i - 1) % 32) + 1]]

\* result.insert(result.cbegin() + hrplen + 1, colon) with the iterator past
\* the end of the string is undefined: the call may end the process, throw,
\* or go on with some string
InsertUndefined(plain, hrplen) == hrplen + 1 > Len(plain)

UndefinedOutcomes(plain) ==
    { Thrown("terminated"),
      Thrown("HRP must be less than 84 characters long"),
      Thrown("Can't add separator characters to strings with length < 2"),
      Thrown("HRP length can't be greater than input length"),
      Returned(plain, << >>),
      Returned(plain \o << colon >>, << >>) }

\* what prettyPrint(plain, hrplen) may do
prettyPrintOutcomes(plain, hrplen) ==
    IF InsertUndefined(plain, hrplen) THEN UndefinedOutcomes(plain)
    ELSE { prettyPrint(plain, hrplen) }

\* prettyPrint, called with the length of hrp
Format(plain, hrp, outcome) ==
    /\ pc = "start"
    /\ pc' = "formatted"
    /\ args' = [NoArgs EXCEPT !.hrp = hrp]
    /\ input' = [NoInput EXCEPT !.how = "plain", !.str = plain, !.hrp = hrp]
    /\ encoded' = outcome
    /\ UNCHANGED << decoded, redecoded, classified >>

CallFormat ==
    /\ pc = "start"
    /\ \E n \in 0..MaxRawLength, hrplen \in FormatHrpLengths :
          \E outcome \in prettyPrintOutcomes(RawString(n), hrplen) :
             Format(RawString(n), Repeat("a", hrplen), outcome)

NextFormat == CallFormat

SpecFormat == Init /\ [][NextFormat]_vars

(***************************************************************************)
(* What the properties below speak of.                                     *)
(***************************************************************************)
RangeErrors ==
    { "block height is too large", "transaction position is too large",
      "txo index is too large", "magic code is too large" }
UnsupportedVariant == "magic code does not support extended txrefs"
UnsupportedVersion == "Unknown txref version detected"
InvalidPayloadSize == "decoded dp size is incorrect"
ChecksumError == "checksum is invalid"

ExtendedMagicCodes == {MAGIC_BTC_MAIN_EXTENDED, MAGIC_BTC_TEST_EXTENDED}

HeightInRange(a) == a.blockHeight >= 0 /\ a.blockHeight <= 16777215
PositionInRange(a) == a.transactionPosition >= 0 /\ a.transactionPosition <= 32767
TxoIndexInRange(a) == a.txoIndex >= 0 /\ a.txoIndex <= 32767
ArgsInRange(a) == HeightInRange(a) /\ PositionInRange(a) /\ TxoIndexInRange(a)

\* the call asked for the extended form
ExtendedAsked(a) == a.txoIndex # 0 \/ a.forceExtended

\* encode was called with "tx", or encodeTestnet with "txtest"
CanonicalHrp(a) == a.hrp = (IF a.testnet THEN BECH32_HRP_TEST ELSE BECH32_HRP_MAIN)

\* the decoded reference d carries the fields of the arguments a
SameFields(d, a) ==
    /\ d.blockHeight = a.blockHeight
    /\ d.transactionPosition = a.transactionPosition
    /\ d.txoIndex = a.txoIndex

\* the fields a payload stores, by the layout of spec.md §4.2
StoredHeight(dp) ==
    (dp[2] \div 2) + 16 * dp[3] + 512 * dp[4] + 16384 * dp[5] + 524288 * dp[6]
StoredPosition(dp) == dp[7] + 32 * dp[8] + 1024 * dp[9]
StoredTxoIndex(dp) == IF Len(dp) >= 12 THEN dp[10] + 32 * dp[11] + 1024 * dp[12] ELSE 0

(***************************************************************************)
(* C1.  Standard round trip: for in-range height and position, txoIndex 0, *)
(* forceExtended false and every HRP bech32 accepts, decode of what encode *)
(* or encodeTestnet returned succeeds with the same height, position,      *)
(* txoIndex 0 and HRP, the modern checksum variant, no commentary, and a   *)
(* formatted string equal to the encoded one.                              *)
(***************************************************************************)
StandardRoundTrip ==
    (/\ pc = "decoded" /\ input.how = "encoded"
     /\ ArgsInRange(args) /\ ~ExtendedAsked(args) /\ Bech32HrpOk(args.hrp))
    => /\ decoded.ok
       /\ SameFields(decoded, args)
       /\ decoded.txoIndex = 0
       /\ decoded.hrp = args.hrp
       /\ decoded.encoding = "Bech32m"
       /\ decoded.commentary = << >>
       /\ decoded.txref = encoded.str

(***************************************************************************)
(* C2.  Extended round trip: for in-range fields with txoIndex > 0 or      *)
(* forceExtended, encode and encodeTestnet succeed and decode of what they *)
(* returned succeeds with the same height, position and txoIndex, the      *)
(* modern checksum variant and no commentary.                              *)
(***************************************************************************)
ExtendedRoundTrip ==
    (/\ ArgsInRange(args) /\ ExtendedAsked(args)
     /\ args.hrp \in {BECH32_HRP_MAIN, BECH32_HRP_TEST})
    => /\ pc = "encoded" => encoded.ok
       /\ (pc = "decoded" /\ input.how = "encoded")
          => /\ decoded.ok
             /\ SameFields(decoded, args)
             /\ decoded.encoding = "Bech32m"
             /\ decoded.commentary = << >>

ExtendedRoundTripWitness ==
    /\ pc = "decoded" /\ input.how = "encoded"
    /\ args.testnet /\ args.hrp = BECH32_HRP_TEST
    /\ args.blockHeight = 466793 /\ args.transactionPosition = 2205
    /\ args.txoIndex = MAX_TXO_INDEX
    /\ decoded.ok /\ decoded.txoIndex = MAX_TXO_INDEX

(***************************************************************************)
(* C3.  Range boundaries, no clamping: encode and encodeTestnet succeed at *)
(* height 16777215, position 32767 and txoIndex 32767, and what they       *)
(* return decodes to those values; they fail with a range error and return *)
(* no string when any of the three is below 0 or above its maximum.        *)
(***************************************************************************)
RangeBoundaries ==
    /\ (pc = "encoded" /\ ArgsInRange(args) /\ Bech32HrpOk(args.hrp)) => encoded.ok
    /\ (pc = "encoded" /\ ~ArgsInRange(args))
       => /\ ~encoded.ok
          /\ encoded.error \in RangeErrors
          /\ encoded.str = << >>
    /\ (pc = "decoded" /\ input.how = "encoded" /\ CanonicalHrp(args))
       => decoded.ok /\ SameFields(decoded, args)

RangeBoundariesWitness ==
    /\ pc = "decoded" /\ input.how = "encoded"
    /\ args.blockHeight = 16777215 /\ args.transactionPosition = 32767
    /\ args.txoIndex = 32767
    /\ decoded.ok /\ decoded.blockHeight = 16777215

(***************************************************************************)
(* C4.  Magic-code exclusivity: txrefExtEncode fails for every magic code  *)
(* other than the two extended ones, with the unsupported-variant error    *)
(* when the magic code is a 5-bit value and the fields are in range; and   *)
(* txrefEncode is never called with an extended magic code, so that no     *)
(* 9-symbol payload carries one, whether it was built for encode, for      *)
(* encodeTestnet or for the re-encoding of a legacy txref.                 *)
(***************************************************************************)
\* what an encoder returned is not a standard payload with an extended magic code
NoStandardWithExtendedMagic(r) ==
    /\ r.fn = "txrefEncode" => r.magicCode \notin ExtendedMagicCodes
    /\ (r.ok /\ Len(r.dp) = DATA_SIZE) => r.dp[1] \notin ExtendedMagicCodes

MagicCodeExclusivity ==
    /\ (pc = "probed" /\ encoded.magicCode \notin ExtendedMagicCodes)
       => /\ ~encoded.ok
          /\ (ArgsInRange(args) /\ encoded.magicCode \in 0..31)
             => encoded.error = UnsupportedVariant
    /\ NoStandardWithExtendedMagic(encoded)
    /\ NoStandardWithExtendedMagic(decoded.updated)
    /\ NoStandardWithExtendedMagic(redecoded.updated)

MagicCodeExclusivityWitness ==
    /\ pc = "probed" /\ encoded.magicCode = MAGIC_BTC_MAIN
    /\ ArgsInRange(args)
    /\ encoded.error = UnsupportedVariant

(***************************************************************************)
(* C5.  Legacy migration: decode of a string with the legacy checksum and  *)
(* a payload of 9 or 12 symbols with version bit 0 succeeds, returns the   *)
(* stored height, position and txoIndex with the input's HRP and magic     *)
(* code, is marked legacy and names a re-encoding in its commentary; the   *)
(* decode of that re-encoding succeeds with the same magic code, height,   *)
(* position and txoIndex and has no commentary.                            *)
(***************************************************************************)
LegacyInput ==
    /\ input.how = "foreign" /\ input.legacy
    /\ Len(input.dp) \in {9, 12}
    /\ input.dp[2] % 2 = 0

LegacyMigration ==
    /\ (pc \in {"decoded", "redecoded"} /\ LegacyInput)
       => /\ decoded.ok
          /\ decoded.blockHeight = StoredHeight(input.dp)
          /\ decoded.transactionPosition = StoredPosition(input.dp)
          /\ decoded.txoIndex = StoredTxoIndex(input.dp)
          /\ decoded.hrp = input.hrp
          /\ decoded.magicCode = input.dp[1]
          /\ decoded.encoding = "Bech32"
          /\ decoded.commentary # << >>
    /\ (pc = "redecoded" /\ LegacyInput)
       => /\ redecoded.ok
          /\ redecoded.magicCode = decoded.magicCode
          /\ SameFields(redecoded, decoded)
          /\ redecoded.commentary = << >>

(***************************************************************************)
(* C6.  Format invertibility with HRP recovery: for what encode returned   *)
(* with HRP "tx" or encodeTestnet with HRP "txtest", decode of the string  *)
(* without its colons and hyphens, and decode of it without its HRP and    *)
(* separator as well, succeed with the same fields and the same HRP.       *)
(***************************************************************************)
FormatInvertibility ==
    (/\ pc = "decoded" /\ input.how \in {"stripped", "nohrp"}
     /\ CanonicalHrp(args))
    => /\ decoded.ok
       /\ SameFields(decoded, args)
       /\ decoded.hrp = args.hrp
       /\ decoded.txref = encoded.str

FormatInvertibilityWitness ==
    /\ pc = "decoded" /\ input.how = "nohrp"
    /\ args.testnet /\ CanonicalHrp(args) /\ args.txoIndex = 10
    /\ input.str[1] = "8" /\ Len(input.str) = TXREF_EXT_STRING_NO_HRP_MIN_LENGTH
    /\ decoded.ok /\ decoded.hrp = BECH32_HRP_TEST /\ decoded.txoIndex = 10

(***************************************************************************)
(* C7.  Classifier precedence: the empty string is unrecognized; a string  *)
(* of exactly 64 characters is a transaction id whatever it holds; a       *)
(* string that is not 64 long, starts with 1, 3, m, n or 2 and has raw     *)
(* length in [26,36) is a legacy address, whatever its stripped length.    *)
(***************************************************************************)
AddressPrefixes == {"1", "3", "m", "n", "2"}

ClassifierPrecedence ==
    pc = "classified"
    => /\ classified.str = << >> => classified.result = "unknown"
       /\ Len(classified.str) = 64 => classified.result = "txid"
       /\ (/\ Len(classified.str) >= 26 /\ Len(classified.str) < 36
           /\ classified.str[1] \in AddressPrefixes)
          => classified.result = "address"

ClassifierPrecedenceWitness ==
    /\ pc = "classified"
    /\ Len(classified.str) = 26 /\ classified.str[1] = "1"
    /\ Len(WithoutSeparators(classified.str)) = TXREF_EXT_STRING_MIN_LENGTH
    /\ classified.result = "address"

(***************************************************************************)
(* C8.  Classifier length tables and tie-break: for an input that is not   *)
(* empty, not 64 long and not a legacy address, the result is decided by   *)
(* the stripped length L and the first three characters: 15 is a standard  *)
(* reference, 21 and 25 are extended, 22 is standard, 18 is standard when  *)
(* the input starts with "tx1" and extended otherwise, any other L is      *)
(* unrecognized.                                                           *)
(***************************************************************************)
\* the characters of s that are symbols of the codec or its separator
RECURSIVE CodecLength(_)
CodecLength(s) ==
    IF s = << >> THEN 0
    ELSE (IF Head(s) \in Range(charset) \cup {"1"} THEN 1 ELSE 0) + CodecLength(Tail(s))

CapturedEarly(s) ==
    \/ s = << >>
    \/ Len(s) = 64
    \/ Len(s) >= 26 /\ Len(s) < 36 /\ s[1] \in AddressPrefixes

ByLengthTable(s) ==
    LET L == CodecLength(s)
    IN  IF L = 15 THEN "txref"
        ELSE IF L = 21 \/ L = 25 THEN "txrefext"
        ELSE IF L = 22 THEN "txref"
        ELSE IF L = 18
        THEN (IF SubSeq(s, 1, 3) = << "t", "x", "1" >> THEN "txref" ELSE "txrefext")
        ELSE "unknown"

ClassifierLengthTables ==
    (pc = "classified" /\ ~CapturedEarly(classified.str))
    => classified.result = ByLengthTable(classified.str)

ClassifierLengthTablesWitness ==
    /\ pc = "classified"
    /\ ~CapturedEarly(classified.str)
    /\ CodecLength(classified.str) = 18
    /\ classified.str[1] = "-"
    /\ classified.rule = "tie" /\ classified.result = "txrefext"

(***************************************************************************)
(* C9.  Decode failure kinds and their precedence: a string whose checksum *)
(* does not verify fails with the checksum error; else a payload of        *)
(* neither 9 nor 12 symbols fails with the payload-size error; else a      *)
(* version bit that is not 0 fails with the version error; and a failed    *)
(* decode returns no reference.                                            *)
(***************************************************************************)
DecodeFailurePrecedence ==
    /\ (pc = "decoded" /\ input.how = "damaged")
       => ~decoded.ok /\ decoded.error = ChecksumError
    /\ (pc = "decoded" /\ input.how = "foreign")
       => IF Len(input.dp) \notin {9, 12}
          THEN ~decoded.ok /\ decoded.error = InvalidPayloadSize
          ELSE IF input.dp[2] % 2 # 0
          THEN ~decoded.ok /\ decoded.error = UnsupportedVersion
          ELSE decoded.ok
    /\ ~decoded.ok
       => /\ decoded.txref = << >> /\ decoded.hrp = << >> /\ decoded.dp = << >>
          /\ decoded.commentary = << >>
    /\ decoded.ok => decoded.dp[2] % 2 = 0 /\ Len(decoded.dp) \in {9, 12}

DecodeFailurePrecedenceWitness ==
    /\ pc = "decoded" /\ input.how = "foreign"
    /\ Len(input.dp) = 12 /\ input.dp[2] % 2 = 1
    /\ ~decoded.ok /\ decoded.error = UnsupportedVersion

(***************************************************************************)
(* C10.  Magic code determines txo-index presence on decode: a reference   *)
(* that decode returns has the 12-symbol payload exactly when its magic    *)
(* code is one of the two extended values.                                 *)
(***************************************************************************)
MagicCodeDeterminesTxoIndex ==
    (pc = "decoded" /\ decoded.ok)
    => (Len(decoded.dp) = 12 <=> decoded.magicCode \in ExtendedMagicCodes)

(***************************************************************************)
(* C11.  Encode path and magic-code selection: what encode or              *)
(* encodeTestnet returned was built from a payload of exactly 12 symbols   *)
(* when txoIndex # 0 or forceExtended, and of exactly 9 symbols otherwise; *)
(* symbol 0 of the payload is the magic code of the table entry for the    *)
(* network and the path, and the string carries that payload: its first    *)
(* data character is the character of the magic code and its length        *)
(* without colons and hyphens is HRP + separator + payload + checksum.     *)
(***************************************************************************)
\* the magic code of the table entry keyed by network and path
TableMagicCode(testnet, extended) ==
    IF testnet
    THEN (IF extended THEN MAGIC_BTC_TEST_EXTENDED ELSE MAGIC_BTC_TEST)
    ELSE (IF extended THEN MAGIC_BTC_MAIN_EXTENDED ELSE MAGIC_BTC_MAIN)

EncodePathSelection ==
    (pc # "start" /\ encoded.ok)
    => LET plain == WithoutSeparators(encoded.str)
       IN  /\ Len(encoded.dp) = (IF ExtendedAsked(args) THEN DATA_EXTENDED_SIZE
                                                         ELSE DATA_SIZE)
           /\ encoded.dp[1] = TableMagicCode(args.testnet, ExtendedAsked(args))
           /\ encoded.fn = (IF ExtendedAsked(args) THEN "txrefExtEncode"
                                                   ELSE "txrefEncode")
           /\ encoded.magicCode = encoded.dp[1]
           /\ Len(plain) = Len(args.hrp) + 1 + Len(encoded.dp) + CHECKSUM_LENGTH
           /\ plain[Len(args.hrp) + 2] = charset[encoded.dp[1] + 1]

EncodePathSelectionWitness ==
    /\ pc = "encoded" /\ encoded.ok
    /\ args.testnet /\ args.forceExtended /\ args.txoIndex = 0
    /\ Len(encoded.dp) = DATA_EXTENDED_SIZE
    /\ encoded.dp[1] = MAGIC_BTC_TEST_EXTENDED

(***************************************************************************)
(* C12.  Bit-field layout: for in-range magic code, height, position and   *)
(* txoIndex the packed payload has every symbol in 0..31, symbol 0 equal   *)
(* to the magic code and the lowest bit of symbol 1 equal to 0; the        *)
(* extract functions compute height = (b1 >> 1) + 2^4 b2 + 2^9 b3 +        *)
(* 2^14 b4 + 2^19 b5, position = b6 + 2^5 b7 + 2^10 b8 and, for 12         *)
(* symbols, txoIndex = b9 + 2^5 b10 + 2^10 b11, which are the packed       *)
(* values; a tuple that differs in one field packs to another payload; and *)
(* a 9-symbol payload unpacks txoIndex as 0.                               *)
(***************************************************************************)
\* the payload the encoders build for the fields f = <<magic, height, position, txoIndex>>
PackedAs(f, size) ==
    IF size = DATA_EXTENDED_SIZE
    THEN standardPayload(f[1], f[2], f[3]) \o txoPayload(f[4])
    ELSE standardPayload(f[1], f[2], f[3])

\* the tuples that differ from f in exactly one field
OneFieldAway(f, size) ==
    { g \in ({ << m, f[2], f[3], f[4] >> : m \in LayoutMagicCodes }
              \cup { << f[1], bh, f[3], f[4] >> : bh \in LayoutHeights }
              \cup { << f[1], f[2], tp, f[4] >> : tp \in LayoutPositions }
              \cup (IF size = DATA_EXTENDED_SIZE
                    THEN { << f[1], f[2], f[3], ti >> : ti \in LayoutTxoIndexes }
                    ELSE {})) : g # f }

PackedFields == << encoded.magicCode, args.blockHeight, args.transactionPosition,
                   args.txoIndex >>

BitFieldLayout ==
    /\ pc \in {"packed", "unpacked"}
       => /\ encoded.ok
          /\ Len(encoded.dp) = (IF encoded.fn = "txrefExtEncode" THEN DATA_EXTENDED_SIZE
                                                                   ELSE DATA_SIZE)
          /\ \A i \in 1..Len(encoded.dp) : encoded.dp[i] \in 0..31
          /\ encoded.dp[1] = encoded.magicCode
          /\ encoded.dp[2] % 2 = 0
          /\ encoded.dp = PackedAs(PackedFields, Len(encoded.dp))
          /\ \A g \in OneFieldAway(PackedFields, Len(encoded.dp)) :
                PackedAs(g, Len(encoded.dp)) # encoded.dp
    /\ pc = "unpacked"
       => /\ decoded.ok
          /\ decoded.magicCode = encoded.magicCode
          /\ decoded.blockHeight = StoredHeight(encoded.dp)
          /\ decoded.transactionPosition = StoredPosition(encoded.dp)
          /\ decoded.txoIndex = StoredTxoIndex(encoded.dp)
          /\ SameFields(decoded, args)
          /\ Len(encoded.dp) = DATA_SIZE => decoded.txoIndex = 0

BitFieldLayoutWitness ==
    /\ pc = "unpacked"
    /\ encoded.magicCode = MAGIC_BTC_TEST_EXTENDED
    /\ args.blockHeight = 524288 /\ args.transactionPosition = 1023
    /\ args.txoIndex = MAX_TXO_INDEX
    /\ encoded.dp = << 7, 0, 0, 0, 0, 1, 31, 31, 0, 31, 31, 31 >>
    /\ decoded.blockHeight = 524288 /\ decoded.txoIndex = MAX_TXO_INDEX

(***************************************************************************)
(* C13.  Pretty-printer output shape: for a raw string of n alphanumeric   *)
(* characters and an HRP length h with n > h + 1, prettyPrint returns the  *)
(* first h + 1 characters unchanged, then a colon, then the remaining      *)
(* m = n - h - 1 characters in their order with a hyphen after every 4th   *)
(* of them except after the last character of the string; the output has   *)
(* length n + 1 + floor((m - 1) / 4), does not end in a hyphen, and        *)
(* without its colons and hyphens is the raw string again.                 *)
(***************************************************************************)
\* out is plain, of HRP length h, in the shape the pretty printer promises
PrettyShape(plain, h, out) ==
    LET n == Len(plain)
        m == n - h - 1
    IN  /\ Len(out) = n + 1 + ((m - 1) \div 4)
        /\ SubSeq(out, 1, h + 1) = SubSeq(plain, 1, h + 1)
        /\ out[h + 2] = colon
        /\ \A k \in 1..m : out[h + 2 + k + ((k - 1) \div 4)] = plain[h + 1 + k]
        /\ \A j \in 1..((m - 1) \div 4) : out[h + 2 + 5 * j] = hyphen
        /\ out[Len(out)] # hyphen
        /\ WithoutSeparators(out) = plain

\* the call of prettyPrint the state records is one the claim speaks of
ShapePromised ==
    /\ pc = "formatted"
    /\ Len(input.str) > Len(args.hrp) + 1
    /\ Len(args.hrp) <= MAX_HRP_LENGTH

PrettyPrintShape ==
    ShapePromised
    => encoded.ok /\ PrettyShape(input.str, Len(args.hrp), encoded.str)

\* the same for the HRP lengths that leave room for the separator and the colon
PrettyPrintShapeBelowLimit ==
    (ShapePromised /\ Len(args.hrp) + 2 <= MAX_HRP_LENGTH)
    => encoded.ok /\ PrettyShape(input.str, Len(args.hrp), encoded.str)

(***************************************************************************)
(* C14.  Pretty-printer preconditions: prettyPrint fails with a format     *)
(* error when the HRP length exceeds 83 or when the raw string is shorter  *)
(* than 2 characters, and does not fail for an HRP length in 0..83 when    *)
(* the raw string is longer than the HRP length + 1; an HRP of 82 or 83    *)
(* characters is formatted.                                                *)
(***************************************************************************)
FormatErrors ==
    { "HRP must be less than 84 characters long",
      "separatorOffset must be > 0",
      "Can't add separator characters to strings with length < 2",
      "HRP length can't be greater than input length" }

PrettyPrintPreconditions ==
    pc = "formatted"
    => /\ (Len(args.hrp) > MAX_HRP_LENGTH \/ Len(input.str) < 2)
          => ~encoded.ok /\ encoded.error \in FormatErrors
       /\ (Len(args.hrp) <= MAX_HRP_LENGTH /\ Len(input.str) > Len(args.hrp) + 1)
          => encoded.ok

(***************************************************************************)
(* C15.  Classifier fall-through: when classifyInputString reaches its     *)
(* final return the with-HRP classification is unrecognized, so the        *)
(* assertion before that return holds and the result is unrecognized; the  *)
(* pair (with-HRP, no-HRP) of an input that reaches the two length tables  *)
(* is (unrecognized, unrecognized), (recognized, unrecognized),            *)
(* (unrecognized, recognized) or (standard, extended), and never           *)
(* (extended, standard), (standard, standard) or (extended, extended).     *)
(***************************************************************************)
\* the two classifications classifyInputString compares
ClassifiedPair ==
    << classifyInputStringBase(classified.str),
       classifyInputStringMissingHRP(classified.str) >>

AllowedPairs ==
    { << "unknown", "unknown" >>,
      << "txref", "unknown" >>, << "txrefext", "unknown" >>,
      << "unknown", "txref" >>, << "unknown", "txrefext" >>,
      << "txref", "txrefext" >> }

ClassifierFallThrough ==
    (pc = "classified" /\ ~CapturedEarly(classified.str))
    => /\ ClassifiedPair \in AllowedPairs
       /\ classified.rule = "fallthrough"
          => /\ ClassifiedPair = << "unknown", "unknown" >>
             /\ classified.result = "unknown"
       /\ ClassifiedPair = << "unknown", "unknown" >> => classified.rule = "fallthrough"
       /\ ClassifiedPair = << "txref", "txrefext" >> => classified.rule = "tie"

ClassifierFallThroughWitness ==
    /\ pc = "classified"
    /\ ~CapturedEarly(classified.str)
    /\ classified.rule = "fallthrough"
    /\ CodecLength(classified.str) = 17
    /\ SubSeq(classified.str, 1, 3) = << "t", "x", "1" >>
    /\ classified.result = "unknown"

=============================================================================
